---------------------------- MODULE Spec2Model ----------------------------
(***************************************************************************)
(* Model of the chunk -> region aggregation layer of the renderer:        *)
(* ChunkManager and RenderRegion of                                        *)
(* amulet_wx/world_manager/extensions/amulet_renderer/render_region.py.   *)
(*                                                                         *)
(* The render thread calls ChunkManager.draw and ChunkManager.unload;      *)
(* producer threads call ChunkManager.add_render_chunk.  The queue         *)
(* _chunk_temp and the set _chunk_temp_set are the only state the          *)
(* producers touch; everything else belongs to the render thread.          *)
(***************************************************************************)
EXTENDS Integers, Sequences, FiniteSets, TLC

VARIABLES
    _regions,         \* ChunkManager._regions: region key -> RenderRegion
    _chunk_temp,      \* ChunkManager._chunk_temp: the queue, a sequence of chunk ids
    _chunk_temp_set,  \* ChunkManager._chunk_temp_set: a set of chunk coordinates
    render_chunks,    \* the RenderChunk objects built so far: id -> object
    gl,               \* the OpenGL context: handles generated, live objects, buffer data
    calls,            \* the OpenGL and RenderChunk calls made by the render thread's
                      \* current (or, when it is idle, last) call
    exc,              \* the exception the render thread's last call raised, or None
    producer,         \* producer threads inside add_render_chunk, between the put and
                      \* the add to the set: the chunk ids they hold
    render,           \* render thread: position inside draw / unload
    last_call,        \* the render thread's current (or last) call and its argument
                      \* (in the one-region model: the last call and the one before)
    routed            \* chunk ids a drain has handed to a region that has not been
                      \* unloaded since

vars == <<_regions, _chunk_temp, _chunk_temp_set, render_chunks, gl, calls, exc,
          producer, render, last_call, routed>>

---------------------------------------------------------------------------
(* Bounds of the model. *)

\* number of RenderChunk objects the producers build in the threaded model
MaxChunks == 2
\* number of RenderChunk objects built in the single-threaded model
MaxChunksST == 2
\* number of producer threads that can be inside add_render_chunk at once
NumProducers == 2
\* number of RenderChunk objects handed to the region in the one-region model
MaxChunksRegion == 2
\* number of times the region of the one-region model may allocate its GPU state
MaxSetups == 2

\* ChunkManager.__init__: region_size=16
region_size == 16
\* ChunkManager.__init__: identifier
identifier == "world"

\* Chunk coordinates the producers submit: (0,0) and (1,0) share region (0,0),
\* (20,0) lies in region (1,0), (-1,-17) lies in region (-1,-2).
Coords == {<<0, 0>>, <<1, 0>>, <<20, 0>>, <<-1, -17>>}
\* The coordinates submitted in the threaded model: two regions, (0,0) and (1,0).
ProducerCoords == {<<0, 0>>, <<20, 0>>}
\* Sizes (in floats, 10 per vertex) of the chunk_lod0 arrays submitted.
LodSizes == {20}
\* Safe areas (x0, z0, x1, z1) passed to unload: the first covers region (0,0)
\* alone, the second the regions (-1,-2)..(1,0), the third (x1 < x0) none.
SafeAreas == {<<0, 0, 15, 15>>, <<-16, -32, 31, 15>>, <<16, 0, 0, 0>>}
\* The safe area the render thread passes in the threaded model: of the two
\* regions the producers fill it keeps (and merges) (0,0) and evicts (1,0).
RenderSafeAreas == {<<0, 0, 15, 15>>}

None == <<>>
EmptyMap == [k \in {} |-> None]

---------------------------------------------------------------------------
(* Helpers on sequences and sets. *)

Range(s) == {s[i] : i \in 1..Len(s)}

RECURSIVE SetToSeq(_)
SetToSeq(S) == IF S = {} THEN <<>>
               ELSE LET x == CHOOSE y \in S : TRUE
                    IN <<x>> \o SetToSeq(S \ {x})

---------------------------------------------------------------------------
(* The render-side state threaded through one call: the region map, the   *)
(* RenderChunk objects, the OpenGL context, the call log and the raised   *)
(* exception.                                                              *)

RState(regions, chunks, g, log, e) ==
    [regions |-> regions, chunks |-> chunks, gl |-> g, calls |-> log, exc |-> e]

Cur == RState(_regions, render_chunks, gl, <<>>, None)

Log(S, entry) == [S EXCEPT !.calls = Append(@, entry)]

---------------------------------------------------------------------------
(* RenderChunk (render_chunk.py): one chunk's vertex payload and its own  *)
(* standalone GPU resources.  gpu is "none" before the first standalone   *)
(* draw, "standalone" while the chunk owns a vertex array of its own and  *)
(* "released" once unload() has run; unloads counts the unload() calls.   *)

NewRenderChunk(cx, cz, size) ==
    [cx |-> cx, cz |-> cz, chunk_lod0 |-> size, gpu |-> "none", unloads |-> 0]

ChunkCoords(chunks, u) == <<chunks[u].cx, chunks[u].cz>>

\* RenderChunk.draw: uploads lazily and issues one draw call; a no-op once released
RenderChunkDraw(S, u) ==
    IF S.chunks[u].gpu = "released"
    THEN S
    ELSE Log([S EXCEPT !.chunks[u].gpu = "standalone"],
             <<"glDrawArrays", <<"chunk", u>>, S.chunks[u].chunk_lod0 \div 10>>)

\* RenderChunk.unload: frees the standalone resources; later calls free nothing
RenderChunkUnload(S, u) ==
    [S EXCEPT !.chunks[u].gpu = "released", !.chunks[u].unloads = @ + 1]

---------------------------------------------------------------------------
(* RenderRegion *)

\* RenderRegion.__init__
RenderRegion(rx, rz, rsize, ident) ==
    [identifier |-> ident, rx |-> rx, rz |-> rz,
     _chunks |-> EmptyMap, _manual_chunks |-> <<>>,
     _shader |-> None, _trm_mat_loc |-> None, _vao |-> None, _vbo |-> None,
     _draw_count |-> 0,
     region_transform |-> <<rx * rsize * 16, rz * rsize * 16>>]

\* RenderRegion.__contains__
RegionContains(region, item) == item \in DOMAIN region._chunks

\* add_render_chunk that keeps the chunk a coordinate already has
RegionAddRenderChunkKeepFirst(S, k, u) ==
    LET c == ChunkCoords(S.chunks, u)
        r == S.regions[k]
    IN [S EXCEPT !.regions[k]._chunks =
                     [x \in DOMAIN r._chunks \cup {c} |->
                         IF x \in DOMAIN r._chunks THEN r._chunks[x] ELSE u],
                 !.regions[k]._manual_chunks = Append(@, u)]

\* RenderRegion.add_render_chunk
RegionAddRenderChunk(S, k, u) ==
    LET c == ChunkCoords(S.chunks, u)
        r == S.regions[k]
    IN [S EXCEPT !.regions[k]._chunks =
                     [x \in DOMAIN r._chunks \cup {c} |-> IF x = c THEN u ELSE r._chunks[x]],
                 !.regions[k]._manual_chunks = Append(@, u)]

\* RenderRegion._setup
RegionSetup(S, k) ==
    IF S.regions[k]._vao # None
    THEN S
    ELSE LET n   == S.gl.gen + 1
             vao == <<"vao", n>>
             vbo == <<"vbo", n>>
             shd == <<"shader", S.regions[k].identifier, "render_chunk">>
             S1  == [S EXCEPT !.gl.gen = n,
                              !.gl.vaos = @ \cup {vao},
                              !.gl.vbos = @ \cup {vbo},
                              !.gl.data = [h \in DOMAIN @ \cup {vbo} |->
                                              IF h = vbo THEN [size |-> 0, content |-> {}]
                                              ELSE @[h]],
                              !.regions[k]._vao = vao,
                              !.regions[k]._vbo = vbo,
                              !.regions[k]._shader = shd,
                              !.regions[k]._trm_mat_loc = <<"uniform", shd, "transformation_matrix">>]
         IN Log(Log(Log(S1, <<"glGenVertexArrays", vao>>),
                    <<"glGenBuffers", vbo>>),
                <<"glBufferData", vbo, 0>>)

\* for chunk in ...: chunk.unload()
RECURSIVE UnloadEach(_, _)
UnloadEach(S, seq) ==
    IF seq = <<>> THEN S
    ELSE UnloadEach(RenderChunkUnload(Log(S, <<"RenderChunk.unload", Head(seq)>>), Head(seq)),
                    Tail(seq))

\* for chunk in self._manual_chunks: chunk.draw(transformation_matrix)
RECURSIVE DrawEach(_, _)
DrawEach(S, seq) ==
    IF seq = <<>> THEN S
    ELSE DrawEach(RenderChunkDraw(Log(S, <<"RenderChunk.draw", Head(seq)>>), Head(seq)),
                  Tail(seq))

\* the chunks held by self._chunks.values()
OwnedChunks(region) == {region._chunks[c] : c \in DOMAIN region._chunks}

\* numpy.concatenate([chunk.chunk_lod0 for chunk in self._chunks.values()]).size
RECURSIVE ConcatSize(_, _)
ConcatSize(chunks, us) ==
    IF us = {} THEN 0
    ELSE LET u == CHOOSE x \in us : TRUE
         IN chunks[u].chunk_lod0 + ConcatSize(chunks, us \ {u})

\* merge that rebuilds the buffer whether or not a chunk is pending
MergeAlways(region) == TRUE

\* RenderRegion.merge: the test that decides whether the buffer is rebuilt
MergeNeeded(region) == region._manual_chunks # <<>>

\* RenderRegion.merge
RegionMerge(S, k) ==
    LET S1 == RegionSetup(S, k)
        r  == S1.regions[k]
    IN IF ~MergeNeeded(r) THEN S1
       ELSE IF OwnedChunks(r) = {}
       THEN [S1 EXCEPT !.exc = <<"ValueError">>]   \* concatenate of an empty list
       ELSE LET size == ConcatSize(S1.chunks, OwnedChunks(r))
                S2   == Log([S1 EXCEPT !.regions[k]._draw_count = size \div 10,
                                       !.gl.data[r._vbo] =
                                           [size |-> size * 4, content |-> OwnedChunks(r)]],
                            <<"glBufferData", r._vbo, size * 4>>)
                S3   == UnloadEach(S2, r._manual_chunks)
            IN [S3 EXCEPT !.regions[k]._manual_chunks = <<>>]

\* unload that deletes the vertex array and keeps its handle
RegionUnloadKeepHandle(S, k) ==
    LET r  == S.regions[k]
        S1 == IF r._vao # None
              THEN Log([S EXCEPT !.gl.vaos = @ \ {r._vao}],
                       <<"glDeleteVertexArrays", r._vao>>)
              ELSE S
        S2 == UnloadEach(S1, SetToSeq(OwnedChunks(r)))
    IN [S2 EXCEPT !.regions[k]._chunks = EmptyMap]

\* RenderRegion.unload
RegionUnload(S, k) ==
    LET r  == S.regions[k]
        S1 == IF r._vao # None
              THEN Log([S EXCEPT !.gl.vaos = @ \ {r._vao}, !.regions[k]._vao = None],
                       <<"glDeleteVertexArrays", r._vao>>)
              ELSE S
        S2 == UnloadEach(S1, SetToSeq(OwnedChunks(r)))
    IN [S2 EXCEPT !.regions[k]._chunks = EmptyMap]

\* draw with no batching: one standalone draw call per owned chunk
RegionDrawPerChunk(S, k) ==
    LET S1 == RegionSetup(S, k)
        r  == S1.regions[k]
        S2 == Log(S1, <<"glDrawArrays", r._vao, r._draw_count>>)
    IN DrawEach(S2, SetToSeq(OwnedChunks(r) \cup Range(r._manual_chunks)))

\* draw that forgets the chunks not merged yet
RegionDrawMergedOnly(S, k) ==
    LET S1 == RegionSetup(S, k)
        r  == S1.regions[k]
    IN Log(S1, <<"glDrawArrays", r._vao, r._draw_count>>)

\* RenderRegion.draw
RegionDraw(S, k) ==
    LET S1 == RegionSetup(S, k)
        r  == S1.regions[k]
        S2 == Log(S1, <<"glDrawArrays", r._vao, r._draw_count>>)
    IN DrawEach(S2, r._manual_chunks)

---------------------------------------------------------------------------
(* ChunkManager *)

\* region_coords with a division that rounds towards zero
region_coords_truncating(cx, cz) ==
    <<IF cx >= 0 THEN cx \div region_size ELSE -((-cx) \div region_size),
      IF cz >= 0 THEN cz \div region_size ELSE -((-cz) \div region_size)>>

\* ChunkManager.region_coords (Python's // rounds towards minus infinity, as \div does)
region_coords(cx, cz) == <<cx \div region_size, cz \div region_size>>

\* __contains__ that looks at the regions only
ContainsResidentOnly(chunk_coords) ==
    LET rc == region_coords(chunk_coords[1], chunk_coords[2])
    IN /\ rc \in DOMAIN _regions
       /\ RegionContains(_regions[rc], chunk_coords)

\* ChunkManager.__contains__
Contains(chunk_coords) ==
    LET rc == region_coords(chunk_coords[1], chunk_coords[2])
    IN \/ chunk_coords \in _chunk_temp_set
       \/ /\ rc \in DOMAIN _regions
          /\ RegionContains(_regions[rc], chunk_coords)

\* ChunkManager._merge_chunk_temp, one pass of the loop body: get() and route
MergeOne(S, u) ==
    LET rc == region_coords(S.chunks[u].cx, S.chunks[u].cz)
        S1 == IF rc \in DOMAIN S.regions THEN S
              ELSE [S EXCEPT !.regions =
                        [x \in DOMAIN @ \cup {rc} |->
                            IF x = rc THEN RenderRegion(rc[1], rc[2], region_size, identifier)
                            ELSE @[x]]]
    IN RegionAddRenderChunk(S1, rc, u)

\* a drain loop that runs once more than the queue holds items
DrainCountPlusOne(q) == Len(q) + 1

\* ChunkManager._merge_chunk_temp: range(self._chunk_temp.qsize())
DrainCount(q) == Len(q)

\* ChunkManager._merge_chunk_temp: the loop, n passes over the queue q
RECURSIVE MergeLoop(_, _, _)
MergeLoop(S, q, n) ==
    IF n = 0 THEN S
    ELSE MergeLoop(MergeOne(S, Head(q)), Tail(q), n - 1)

\* ChunkManager.draw: for region in self._regions.values(): region.draw(...)
RECURSIVE DrawRegions(_, _)
DrawRegions(S, keys) ==
    IF keys = <<>> \/ S.exc # None THEN S
    ELSE DrawRegions(RegionDraw(S, Head(keys)), Tail(keys))

\* ChunkManager.unload(None): for region in self._regions.values(): region.unload()
RECURSIVE UnloadRegions(_, _)
UnloadRegions(S, keys) ==
    IF keys = <<>> \/ S.exc # None THEN S
    ELSE UnloadRegions(RegionUnload(S, Head(keys)), Tail(keys))

\* the box test with the upper corner left out
InSafeBoxExclusive(rx, rz, min_r, max_r) ==
    /\ min_r[1] <= rx /\ rx < max_r[1]
    /\ min_r[2] <= rz /\ rz < max_r[2]

\* ChunkManager.unload(safe_area): the test of line 59
InSafeBox(rx, rz, min_r, max_r) ==
    /\ min_r[1] <= rx /\ rx <= max_r[1]
    /\ min_r[2] <= rz /\ rz <= max_r[2]

\* ChunkManager.unload(safe_area): the loop that merges or unloads each region
RECURSIVE SafeAreaLoop(_, _, _, _)
SafeAreaLoop(S, keys, min_r, max_r) ==
    IF keys = <<>> \/ S.exc # None THEN S
    ELSE LET k == Head(keys)
             r == S.regions[k]
         IN SafeAreaLoop(IF InSafeBox(r.rx, r.rz, min_r, max_r)
                         THEN RegionMerge(S, k)
                         ELSE RegionUnload(S, k),
                         Tail(keys), min_r, max_r)

\* ChunkManager.unload(safe_area), the else branch
UnloadSafeArea(S, safe_area) ==
    LET min_r == region_coords(safe_area[1], safe_area[2])
        max_r == region_coords(safe_area[3], safe_area[4])
        delete_regions == {<<S.regions[k].rx, S.regions[k].rz>> :
                              k \in {x \in DOMAIN S.regions :
                                  ~InSafeBox(S.regions[x].rx, S.regions[x].rz, min_r, max_r)}}
        S1 == SafeAreaLoop(S, SetToSeq(DOMAIN S.regions), min_r, max_r)
    IN IF S1.exc # None THEN S1
       ELSE [S1 EXCEPT !.regions = [k \in DOMAIN @ \ delete_regions |-> @[k]]]

\* unload(None) without self._regions.clear()
UnloadAllRegionsKeepMap(S) == UnloadRegions(S, SetToSeq(DOMAIN S.regions))

\* ChunkManager.unload(None): the regions' part
UnloadAllRegions(S) ==
    LET S1 == UnloadRegions(S, SetToSeq(DOMAIN S.regions))
    IN IF S1.exc # None THEN S1 ELSE [S1 EXCEPT !.regions = EmptyMap]

\* chunks whose region is still in the map
StillRouted(us, chunks, regions) ==
    {u \in us : region_coords(chunks[u].cx, chunks[u].cz) \in DOMAIN regions}

Commit(S) ==
    /\ _regions' = S.regions
    /\ render_chunks' = S.chunks
    /\ gl' = S.gl
    /\ calls' = S.calls
    /\ exc' = S.exc

Idle == [pc |-> "idle", n |-> 0, todo |-> {}, keys |-> {}, drained |-> {}]

Init ==
    /\ _regions = EmptyMap
    /\ _chunk_temp = <<>>
    /\ _chunk_temp_set = {}
    /\ render_chunks = <<>>
    /\ gl = [gen |-> 0, vaos |-> {}, vbos |-> {}, data |-> EmptyMap]
    /\ calls = <<>>
    /\ exc = None
    /\ producer = {}
    /\ render = Idle
    /\ last_call = <<"__init__">>
    /\ routed = {}

---------------------------------------------------------------------------
(* The single-threaded model: every call runs from start to return.       *)

ST_add_render_chunk(c, size) ==
    /\ Len(render_chunks) < MaxChunksST
    /\ LET u == Len(render_chunks) + 1
       IN /\ render_chunks' = Append(render_chunks, NewRenderChunk(c[1], c[2], size))
          /\ _chunk_temp' = Append(_chunk_temp, u)
          /\ _chunk_temp_set' = _chunk_temp_set \cup {c}
    /\ last_call' = <<"add_render_chunk">>
    /\ UNCHANGED <<_regions, gl, calls, exc, producer, render, routed>>

ST_draw ==
    /\ DrainCount(_chunk_temp) <= Len(_chunk_temp)    \* get() blocks on an empty queue
    /\ LET n  == DrainCount(_chunk_temp)
           S1 == DrawRegions(Cur, SetToSeq(DOMAIN _regions))
           S2 == IF S1.exc # None THEN S1 ELSE MergeLoop(S1, _chunk_temp, n)
       IN /\ Commit(S2)
          /\ _chunk_temp' = SubSeq(_chunk_temp, n + 1, Len(_chunk_temp))
          /\ _chunk_temp_set' = {}
          /\ routed' = routed \cup Range(SubSeq(_chunk_temp, 1, n))
          /\ render' = [Idle EXCEPT !.drained = Range(SubSeq(_chunk_temp, 1, n))]
    /\ last_call' = <<"draw">>
    /\ UNCHANGED producer

ST_unload ==
    /\ DrainCount(_chunk_temp) <= Len(_chunk_temp)
    /\ LET n == DrainCount(_chunk_temp)
           S == UnloadAllRegions(Cur)
       IN /\ Commit(S)
          /\ _chunk_temp' = SubSeq(_chunk_temp, n + 1, Len(_chunk_temp))
          /\ _chunk_temp_set' = {}
    /\ routed' = {}
    /\ render' = Idle
    /\ last_call' = <<"unload", None>>
    /\ UNCHANGED producer

\* unload(safe_area) that empties the queue and the set as unload() does
ST_unload_safe_area_draining(safe_area) ==
    /\ LET S == UnloadSafeArea(Cur, safe_area)
       IN /\ Commit(S)
          /\ routed' = StillRouted(routed, render_chunks, S.regions)
    /\ render' = Idle
    /\ last_call' = <<"unload", safe_area>>
    /\ _chunk_temp' = <<>>
    /\ _chunk_temp_set' = {}
    /\ UNCHANGED producer

ST_unload_safe_area(safe_area) ==
    /\ LET S == UnloadSafeArea(Cur, safe_area)
       IN /\ Commit(S)
          /\ routed' = StillRouted(routed, render_chunks, S.regions)
    /\ render' = Idle
    /\ last_call' = <<"unload", safe_area>>
    /\ UNCHANGED <<_chunk_temp, _chunk_temp_set, producer>>

NextST ==
    \/ \E c \in Coords, size \in LodSizes : ST_add_render_chunk(c, size)
    \/ ST_draw
    \/ ST_unload
    \/ \E safe_area \in SafeAreas : ST_unload_safe_area(safe_area)

SpecST == Init /\ [][NextST]_vars

---------------------------------------------------------------------------
(* The threaded model.  A producer's add_render_chunk is two steps, the   *)
(* put on the queue and the add to the set.  The render thread's draw and *)
(* unload(None) are split at every access to the queue and the set and at *)
(* every pass of their loops over the regions; the region map, the        *)
(* regions, the chunks' GPU state and the OpenGL context are touched by   *)
(* the render thread alone, so a pass of a loop is one step (the get() of *)
(* the drain loop together with the routing of the chunk it returned).    *)

Running == RState(_regions, render_chunks, gl, calls, exc)

\* add_render_chunk, line 21: self._chunk_temp.put(render_chunk)
put(c, size) ==
    /\ Cardinality(producer) < NumProducers
    /\ Len(render_chunks) < MaxChunks
    /\ LET u == Len(render_chunks) + 1
       IN /\ render_chunks' = Append(render_chunks, NewRenderChunk(c[1], c[2], size))
          /\ _chunk_temp' = Append(_chunk_temp, u)
          /\ producer' = producer \cup {u}
    /\ UNCHANGED <<_regions, _chunk_temp_set, gl, calls, exc, render, last_call,
                   routed>>

\* add_render_chunk, line 22: self._chunk_temp_set.add(...), and the return
set_add(u) ==
    /\ u \in producer
    /\ _chunk_temp_set' = _chunk_temp_set \cup {ChunkCoords(render_chunks, u)}
    /\ producer' = producer \ {u}
    /\ UNCHANGED <<_regions, _chunk_temp, render_chunks, gl, calls, exc, render,
                   last_call, routed>>

\* draw is called: the iteration over self._regions.values() starts
draw_begin ==
    /\ render.pc = "idle"
    /\ render' = [Idle EXCEPT !.pc = "draw_regions",
                              !.todo = DOMAIN _regions, !.keys = DOMAIN _regions]
    /\ calls' = <<>>
    /\ exc' = None
    /\ last_call' = <<"draw">>
    /\ UNCHANGED <<_regions, _chunk_temp, _chunk_temp_set, render_chunks, gl,
                   producer, routed>>

\* draw, line 43: region.draw(camera_transform) for the next region
draw_region ==
    /\ render.pc = "draw_regions"
    /\ render.todo # {}
    /\ LET k == CHOOSE x \in render.todo : TRUE
       IN /\ Commit(RegionDraw(Running, k))
          /\ render' = [render EXCEPT !.todo = @ \ {k}]
    /\ UNCHANGED <<_chunk_temp, _chunk_temp_set, producer, last_call, routed>>

\* _merge_chunk_temp, line 25: range(self._chunk_temp.qsize())
merge_qsize ==
    /\ render.pc = "draw_regions"
    /\ render.todo = {}
    /\ render' = [render EXCEPT !.pc = "merge_get", !.n = DrainCount(_chunk_temp),
                                !.keys = {}]
    /\ UNCHANGED <<_regions, _chunk_temp, _chunk_temp_set, render_chunks, gl, calls,
                   exc, producer, last_call, routed>>

\* _merge_chunk_temp, lines 26-30: one pass of the loop; get() waits for an item
merge_get ==
    /\ render.pc = "merge_get"
    /\ render.n > 0
    /\ _chunk_temp # <<>>
    /\ LET u == Head(_chunk_temp)
       IN /\ Commit(MergeOne(Running, u))
          /\ render' = [render EXCEPT !.n = @ - 1, !.drained = @ \cup {u}]
          /\ routed' = routed \cup {u}
    /\ _chunk_temp' = Tail(_chunk_temp)
    /\ UNCHANGED <<_chunk_temp_set, producer, last_call>>

\* _merge_chunk_temp, line 31: self._chunk_temp_set.clear(), and draw returns
merge_clear ==
    /\ render.pc = "merge_get"
    /\ render.n = 0
    /\ _chunk_temp_set' = {}
    /\ render' = [render EXCEPT !.pc = "idle"]
    /\ UNCHANGED <<_regions, _chunk_temp, render_chunks, gl, calls, exc, producer,
                   last_call, routed>>

\* unload(None), line 48: range(self._chunk_temp.qsize())
unload_qsize ==
    /\ render.pc = "idle"
    /\ render' = [Idle EXCEPT !.pc = "unload_get", !.n = DrainCount(_chunk_temp)]
    /\ calls' = <<>>
    /\ exc' = None
    /\ last_call' = <<"unload", None>>
    /\ UNCHANGED <<_regions, _chunk_temp, _chunk_temp_set, render_chunks, gl,
                   producer, routed>>

\* unload(None), line 49: self._chunk_temp.get()
unload_get ==
    /\ render.pc = "unload_get"
    /\ render.n > 0
    /\ _chunk_temp # <<>>
    /\ _chunk_temp' = Tail(_chunk_temp)
    /\ render' = [render EXCEPT !.n = @ - 1]
    /\ UNCHANGED <<_regions, _chunk_temp_set, render_chunks, gl, calls, exc,
                   producer, last_call, routed>>

\* unload(None), line 50: self._chunk_temp_set.clear(); the iteration over
\* self._regions.values() starts
unload_clear ==
    /\ render.pc = "unload_get"
    /\ render.n = 0
    /\ _chunk_temp_set' = {}
    /\ render' = [render EXCEPT !.pc = "unload_regions",
                                !.todo = DOMAIN _regions, !.keys = DOMAIN _regions]
    /\ UNCHANGED <<_regions, _chunk_temp, render_chunks, gl, calls, exc, producer,
                   last_call, routed>>

\* unload(None), line 52: region.unload() for the next region
unload_region ==
    /\ render.pc = "unload_regions"
    /\ render.todo # {}
    /\ LET k == CHOOSE x \in render.todo : TRUE
       IN /\ Commit(RegionUnload(Running, k))
          /\ render' = [render EXCEPT !.todo = @ \ {k}]
    /\ UNCHANGED <<_chunk_temp, _chunk_temp_set, producer, last_call, routed>>

\* unload(None), line 53: self._regions.clear(), and unload returns
unload_regions_clear ==
    /\ render.pc = "unload_regions"
    /\ render.todo = {}
    /\ _regions' = EmptyMap
    /\ render' = Idle
    /\ routed' = {}
    /\ UNCHANGED <<_chunk_temp, _chunk_temp_set, render_chunks, gl, calls, exc,
                   producer, last_call>>

\* unload(safe_area), lines 55-66: touches the regions only
unload_safe_area(safe_area) ==
    /\ render.pc = "idle"
    /\ LET S == UnloadSafeArea(Cur, safe_area)
       IN /\ Commit(S)
          /\ routed' = StillRouted(routed, render_chunks, S.regions)
    /\ render' = Idle
    /\ last_call' = <<"unload", safe_area>>
    /\ UNCHANGED <<_chunk_temp, _chunk_temp_set, producer>>

ProducerStep ==
    \/ \E c \in ProducerCoords, size \in LodSizes : put(c, size)
    \/ \E u \in producer : set_add(u)

\* the render thread goes on with the call it is in
RenderContinue ==
    \/ draw_region
    \/ merge_qsize
    \/ merge_get
    \/ merge_clear
    \/ unload_get
    \/ unload_clear
    \/ unload_region
    \/ unload_regions_clear

\* the render thread starts a call
RenderCall ==
    \/ draw_begin
    \/ unload_qsize
    \/ \E safe_area \in RenderSafeAreas : unload_safe_area(safe_area)

Next == ProducerStep \/ RenderContinue \/ RenderCall

Spec == Init /\ [][Next]_vars

\* The producers and a render thread that calls draw only.
NextDraw ==
    \/ ProducerStep
    \/ draw_begin
    \/ draw_region
    \/ merge_qsize
    \/ merge_get
    \/ merge_clear

SpecDraw == Init /\ [][NextDraw]_vars

\* The render thread is scheduled: a call it has started goes on while it can.
SpecFair == Spec /\ WF_vars(RenderContinue)

---------------------------------------------------------------------------
(* The one-region model: a RenderRegion(0, 0) driven directly through its *)
(* own methods, in any order, by one thread.  It is kept under its key in *)
(* _regions.                                                               *)

RegionKey == <<0, 0>>
\* the coordinates of region (0, 0) the caller hands it
RegionCoords == {<<0, 0>>, <<1, 0>>}

InitRegion ==
    /\ _regions = [k \in {RegionKey} |->
                      RenderRegion(RegionKey[1], RegionKey[2], region_size, identifier)]
    /\ _chunk_temp = <<>>
    /\ _chunk_temp_set = {}
    /\ render_chunks = <<>>
    /\ gl = [gen |-> 0, vaos |-> {}, vbos |-> {}, data |-> EmptyMap]
    /\ calls = <<>>
    /\ exc = None
    /\ producer = {}
    /\ render = Idle
    /\ last_call = <<"__init__", "__init__">>
    /\ routed = {}

\* _setup can allocate: the region holds GPU state, or the model's bound allows more
CanSetup == _regions[RegionKey]._vao # None \/ gl.gen < MaxSetups

R_add_render_chunk(c, size) ==
    /\ Len(render_chunks) < MaxChunksRegion
    /\ LET u == Len(render_chunks) + 1
           S == RState(_regions, Append(render_chunks, NewRenderChunk(c[1], c[2], size)),
                       gl, <<>>, None)
       IN Commit(RegionAddRenderChunk(S, RegionKey, u))
    /\ last_call' = <<"add_render_chunk", last_call[1]>>
    /\ UNCHANGED <<_chunk_temp, _chunk_temp_set, producer, render, routed>>

R_merge ==
    /\ CanSetup
    /\ Commit(RegionMerge(Cur, RegionKey))
    /\ last_call' = <<"merge", last_call[1]>>
    /\ UNCHANGED <<_chunk_temp, _chunk_temp_set, producer, render, routed>>

R_draw ==
    /\ CanSetup
    /\ Commit(RegionDraw(Cur, RegionKey))
    /\ last_call' = <<"draw", last_call[1]>>
    /\ UNCHANGED <<_chunk_temp, _chunk_temp_set, producer, render, routed>>

R_unload ==
    /\ Commit(RegionUnload(Cur, RegionKey))
    /\ last_call' = <<"unload", last_call[1]>>
    /\ UNCHANGED <<_chunk_temp, _chunk_temp_set, producer, render, routed>>

NextRegion ==
    \/ \E c \in RegionCoords, size \in LodSizes : R_add_render_chunk(c, size)
    \/ R_merge
    \/ R_draw
    \/ R_unload

SpecRegion == InitRegion /\ [][NextRegion]_vars

---------------------------------------------------------------------------
(* The one-region model with failing OpenGL calls: a call of _setup or    *)
(* merge that talks to OpenGL may raise.  What the code written after the *)
(* failing call would have done is not done; what it did before stays.    *)

\* the calls of _setup that can raise, in the order _setup makes them
SetupFailPoints ==
    {"glGenVertexArrays", "glGenBuffers", "setup.glBufferData", "get_shader",
     "glGetUniformLocation"}
\* the upload of merge, line 131
MergeFailPoints == {"merge.glBufferData"}
FailPoints == SetupFailPoints \cup MergeFailPoints

Raise(S, f) == [S EXCEPT !.exc = <<"GLError", f>>]

\* RenderRegion._setup in which the call f raises
RegionSetupFailing(S, k, f) ==
    IF S.regions[k]._vao # None \/ f \notin SetupFailPoints
    THEN RegionSetup(S, k)
    ELSE IF f = "glGenVertexArrays" THEN Raise(S, f)
    ELSE LET n   == S.gl.gen + 1
             vao == <<"vao", n>>
             vbo == <<"vbo", n>>
             shd == <<"shader", S.regions[k].identifier, "render_chunk">>
             \* line 100: self._vao = glGenVertexArrays(1)
             S1  == Log([S EXCEPT !.gl.gen = n, !.gl.vaos = @ \cup {vao},
                                  !.regions[k]._vao = vao],
                        <<"glGenVertexArrays", vao>>)
             \* line 102: self._vbo = glGenBuffers(1)
             S2  == Log([S1 EXCEPT !.gl.vbos = @ \cup {vbo}, !.regions[k]._vbo = vbo],
                        <<"glGenBuffers", vbo>>)
             \* line 104: glBufferData(GL_ARRAY_BUFFER, 0, ...)
             S3  == Log([S2 EXCEPT !.gl.data = [h \in DOMAIN @ \cup {vbo} |->
                                                  IF h = vbo THEN [size |-> 0, content |-> {}]
                                                  ELSE @[h]]],
                        <<"glBufferData", vbo, 0>>)
             \* line 120: self._shader = shaders.get_shader(...)
             S4  == [S3 EXCEPT !.regions[k]._shader = shd]
         IN CASE f = "glGenBuffers" -> Raise(S1, f)
              [] f = "setup.glBufferData" -> Raise(S2, f)
              [] f = "get_shader" -> Raise(S3, f)
              [] f = "glGetUniformLocation" -> Raise(S4, f)

\* RenderRegion.merge in which the call f raises
RegionMergeFailing(S, k, f) ==
    LET S1 == RegionSetupFailing(S, k, f)
        r  == S1.regions[k]
    IN IF S1.exc # None \/ f \notin MergeFailPoints \/ ~MergeNeeded(r) \/ OwnedChunks(r) = {}
       THEN IF S1.exc # None THEN S1 ELSE RegionMerge(S1, k)
       ELSE \* lines 129-131: the draw count is set, then glBufferData raises
            Raise([S1 EXCEPT !.regions[k]._draw_count =
                                 ConcatSize(S1.chunks, OwnedChunks(r)) \div 10], f)

\* RenderRegion.draw in which the call f of _setup raises
RegionDrawFailing(S, k, f) ==
    LET S1 == RegionSetupFailing(S, k, f)
    IN IF S1.exc # None THEN S1 ELSE RegionDraw(S1, k)

\* an OpenGL call of the call that produced S raised
GLRaised(S) == S.exc # None /\ S.exc[1] = "GLError"

\* the region's handles are all set or its vertex array is not: what OpenGL does
\* with a None handle is not modelled, so draw and merge are followed only on
\* such a region
HandlesComplete ==
    LET r == _regions[RegionKey]
    IN r._vao = None \/ (r._vbo # None /\ r._shader # None /\ r._trm_mat_loc # None)

F_merge_raises(f) ==
    /\ CanSetup /\ HandlesComplete
    /\ LET S == RegionMergeFailing(Cur, RegionKey, f)
       IN GLRaised(S) /\ Commit(S)
    /\ last_call' = <<"merge", last_call[1]>>
    /\ UNCHANGED <<_chunk_temp, _chunk_temp_set, producer, render, routed>>

F_draw_raises(f) ==
    /\ CanSetup /\ HandlesComplete
    /\ LET S == RegionDrawFailing(Cur, RegionKey, f)
       IN GLRaised(S) /\ Commit(S)
    /\ last_call' = <<"draw", last_call[1]>>
    /\ UNCHANGED <<_chunk_temp, _chunk_temp_set, producer, render, routed>>

NextFail ==
    \/ \E c \in RegionCoords, size \in LodSizes : R_add_render_chunk(c, size)
    \/ HandlesComplete /\ R_merge
    \/ HandlesComplete /\ R_draw
    \/ R_unload
    \/ \E f \in FailPoints : F_merge_raises(f)
    \/ \E f \in SetupFailPoints : F_draw_raises(f)

SpecFail == InitRegion /\ [][NextFail]_vars

---------------------------------------------------------------------------
(* Either object on its own: a ChunkManager driven through its methods by *)
(* one thread, or a RenderRegion that the caller built itself (it has the *)
(* caller's identifier) and drives through its methods.                    *)

lone_identifier == "region"

InitLone ==
    /\ _regions = [k \in {RegionKey} |->
                      RenderRegion(RegionKey[1], RegionKey[2], region_size, lone_identifier)]
    /\ _chunk_temp = <<>>
    /\ _chunk_temp_set = {}
    /\ render_chunks = <<>>
    /\ gl = [gen |-> 0, vaos |-> {}, vbos |-> {}, data |-> EmptyMap]
    /\ calls = <<>>
    /\ exc = None
    /\ producer = {}
    /\ render = Idle
    /\ last_call = <<"__init__", "__init__">>
    /\ routed = {}

\* the object of this behaviour is the caller's own region
IsLone == RegionKey \in DOMAIN _regions /\ _regions[RegionKey].identifier = lone_identifier

NextEither ==
    \/ ~IsLone /\ NextST
    \/ IsLone /\ NextRegion

SpecEither == (Init \/ InitLone) /\ [][NextEither]_vars

---------------------------------------------------------------------------
(* Properties *)

\* a chunk with coordinate c is in the ingestion queue
Queued(c) == \E i \in 1..Len(_chunk_temp) : ChunkCoords(render_chunks, _chunk_temp[i]) = c

\* a chunk with coordinate c is stored in the owned map of a region of the map
Resident(c) == \E k \in DOMAIN _regions : c \in DOMAIN _regions[k]._chunks

\* C1: with producers and the render thread's draw interleaved and no unload,
\* once add_render_chunk for a chunk with coordinate c has returned, c is in the
\* manager at every later point.  (Every chunk built has been put on the queue;
\* the calls of those not held by a producer have returned.)
C1_ReturnedStaysVisible ==
    \A u \in DOMAIN render_chunks \ producer : Contains(ChunkCoords(render_chunks, u))

\* C2: whenever no add_render_chunk call is in progress and c is in the manager,
\* a chunk with coordinate c is in the queue or in the owned map of a region.
\* (Stated at the points most favourable to the claim: the render thread is
\* between two calls as well.)
C2_MemberIsQueuedOrResident ==
    producer = {} /\ render.pc = "idle" =>
        \A c \in ProducerCoords : Contains(c) => Queued(c) \/ Resident(c)

\* C3: single-threaded, add_render_chunk calls followed by a draw: every
\* submitted coordinate is in the manager right after its submission, and after
\* the draw it still is, its chunk having moved from the pending set to the
\* owned map of a region.
C3_SubmittedThenDrawn ==
    /\ \A u \in Range(_chunk_temp) \cup routed : Contains(ChunkCoords(render_chunks, u))
    /\ last_call = <<"add_render_chunk">> =>
          ChunkCoords(render_chunks, Len(render_chunks)) \in _chunk_temp_set
    /\ last_call = <<"draw">> =>
          /\ _chunk_temp = <<>> /\ _chunk_temp_set = {}
          /\ \A u \in render.drained : Resident(ChunkCoords(render_chunks, u))

C3_Witness ==
    /\ last_call = <<"draw">>
    /\ Cardinality(render.drained) = 2
    /\ routed = render.drained

\* C4: every chunk stored in a region is stored in exactly one region of the
\* map, the one whose key and (rx, rz) are (floor(cx/s), floor(cz/s)), for
\* negative coordinates too; with s = 16, (0,0) and (1,0) share region (0,0)
\* and (20,0) lies in region (1,0).
C4_OneRegionPerChunk ==
    /\ \A k \in DOMAIN _regions : \A c \in DOMAIN _regions[k]._chunks :
          LET r == _regions[k]
              u == r._chunks[c]
          IN /\ c = ChunkCoords(render_chunks, u)
             /\ k = <<r.rx, r.rz>>
             /\ r.rx * region_size <= c[1] /\ c[1] < (r.rx + 1) * region_size
             /\ r.rz * region_size <= c[2] /\ c[2] < (r.rz + 1) * region_size
             /\ \A k2 \in DOMAIN _regions \ {k} :
                   /\ c \notin DOMAIN _regions[k2]._chunks
                   /\ u \notin OwnedChunks(_regions[k2])
    /\ region_size = 16 =>
          /\ region_coords(0, 0) = <<0, 0>>
          /\ region_coords(1, 0) = <<0, 0>>
          /\ region_coords(20, 0) = <<1, 0>>

C4_Witness ==
    /\ <<-1, -2>> \in DOMAIN _regions
    /\ <<-1, -17>> \in DOMAIN _regions[<<-1, -2>>]._chunks
    /\ Cardinality(DOMAIN _regions) = 2

\* C5: after unload() with no safe area has returned, the queue, the pending
\* set and the region map are empty and no coordinate ever submitted is in the
\* manager.
C5_UnloadAllEmpties ==
    last_call = <<"unload", None>> =>
        /\ _chunk_temp = <<>>
        /\ _chunk_temp_set = {}
        /\ DOMAIN _regions = {}
        /\ \A u \in DOMAIN render_chunks : ~Contains(ChunkCoords(render_chunks, u))

C5_Witness ==
    /\ last_call = <<"unload", None>>
    /\ Len(render_chunks) = 2
    /\ ChunkCoords(render_chunks, 1) # ChunkCoords(render_chunks, 2)
    /\ <<"RenderChunk.unload", 1>> \in Range(calls)       \* was in a region
    /\ <<"RenderChunk.unload", 2>> \notin Range(calls)    \* was in the queue

\* C6: unload(safe_area) keeps every region of the map that lies in the box
\* region_coords(x0, z0)..region_coords(x1, z1), with an empty pending list, and
\* unloads and drops every region of the map outside the box.
C6_SafeAreaKeepsAndEvicts ==
    [][\A safe_area \in SafeAreas :
          ST_unload_safe_area(safe_area) =>
              LET min_r == region_coords(safe_area[1], safe_area[2])
                  max_r == region_coords(safe_area[3], safe_area[4])
              IN \A k \in DOMAIN _regions :
                    LET r == _regions[k]
                    IN IF /\ min_r[1] <= r.rx /\ r.rx <= max_r[1]
                          /\ min_r[2] <= r.rz /\ r.rz <= max_r[2]
                       THEN /\ k \in DOMAIN _regions'
                            /\ _regions'[k]._manual_chunks = <<>>
                       ELSE /\ k \notin DOMAIN _regions'
                            /\ r._vao \notin gl'.vaos
                            /\ \A u \in OwnedChunks(r) :
                                  <<"RenderChunk.unload", u>> \in Range(calls')
      ]_vars

C6_Witness ==
    /\ last_call = <<"unload", <<0, 0, 15, 15>>>>
    /\ DOMAIN _regions = {<<0, 0>>}
    /\ \E i \in 1..Len(calls) : calls[i][1] = "glBufferData"
    /\ \E i \in 1..Len(calls) :
          /\ calls[i][1] = "RenderChunk.unload"
          /\ ChunkCoords(render_chunks, calls[i][2]) \notin DOMAIN _regions[<<0, 0>>]._chunks

\* the vertex buffer a vertex array's attribute pointers refer to (_setup)
VboOf(vao) == <<"vbo", vao[2]>>

\* the chunks whose payload the draw calls of the log rendered: those drawn
\* standalone, and the content of every merged buffer drawn in full
RenderedChunks ==
    {u \in DOMAIN render_chunks :
        \E i \in 1..Len(calls) :
           /\ calls[i][1] = "glDrawArrays"
           /\ \/ calls[i][2] = <<"chunk", u>>
              \/ /\ calls[i][2][1] = "vao"
                 /\ u \in gl.data[VboOf(calls[i][2])].content
                 /\ calls[i][3] * 40 = gl.data[VboOf(calls[i][2])].size}

\* the region a routed chunk was handed to
RegionOf(u) == _regions[region_coords(render_chunks[u].cx, render_chunks[u].cz)]

\* the draw call has drawn every region (it is draining, or has returned)
DrawnAll == last_call = <<"draw">> /\ render.pc \in {"merge_get", "idle"}

\* C7 as claimed: a chunk is not rendered by the draw call that drains it, and is
\* rendered by every later draw call until its region is unloaded; the region map
\* is not mutated while draw iterates over it.
C7_RenderedFromNextDraw ==
    /\ last_call = <<"draw">> => render.drained \cap RenderedChunks = {}
    /\ DrawnAll => \A u \in routed \ render.drained : u \in RenderedChunks
    /\ render.pc \in {"draw_regions", "unload_regions"} => DOMAIN _regions = render.keys

\* C7 as amended: ... rendered by every later draw call until its region is
\* unloaded or, a later chunk with the same coordinate having replaced it in
\* the owned map, merged.
C7_RenderedWhileOwnedOrPending ==
    /\ last_call = <<"draw">> => render.drained \cap RenderedChunks = {}
    /\ DrawnAll =>
          \A u \in routed \ render.drained :
              u \in OwnedChunks(RegionOf(u)) \cup Range(RegionOf(u)._manual_chunks)
                  => u \in RenderedChunks
    /\ render.pc \in {"draw_regions", "unload_regions"} => DOMAIN _regions = render.keys

C7_Witness ==
    /\ last_call = <<"draw">>
    /\ render.pc = "idle"
    /\ render.drained # {}
    /\ routed \ render.drained # {}
    /\ routed \ render.drained \subseteq RenderedChunks

\* C8: every draw and unload call of the render thread returns, whatever the
\* producers do: a get() of the drain loops never finds the queue empty, the
\* number of passes left never grows, and the call reaches its return.
C8_RenderCallsReturn ==
    /\ [](render.pc \in {"merge_get", "unload_get"} => render.n <= Len(_chunk_temp))
    /\ [][render'.pc = render.pc => render'.n <= render.n]_vars
    /\ (render.pc # "idle") ~> (render.pc = "idle")

C8_Witness ==
    /\ render.pc = "merge_get"
    /\ render.n > 0
    /\ render.n < Len(_chunk_temp)
    /\ producer # {}

\* C9: a merge() directly after a merge(), with no add_render_chunk in between,
\* uploads nothing, releases no chunk and leaves the merged content, the draw
\* count, the owned map and the pending list as the first call left them.
C9_SecondMergeIsNoOp ==
    [][R_merge /\ last_call[1] = "merge" =>
          /\ \A i \in 1..Len(calls') :
                calls'[i][1] \notin {"glBufferData", "RenderChunk.unload"}
          /\ gl'.data = gl.data
          /\ render_chunks' = render_chunks
          /\ _regions'[RegionKey]._draw_count = _regions[RegionKey]._draw_count
          /\ _regions'[RegionKey]._chunks = _regions[RegionKey]._chunks
          /\ _regions'[RegionKey]._manual_chunks = _regions[RegionKey]._manual_chunks
      ]_vars

C9_Witness ==
    /\ last_call = <<"merge", "merge">>
    /\ exc = None
    /\ _regions[RegionKey]._vbo # None
    /\ Cardinality(gl.data[_regions[RegionKey]._vbo].content) = 2

\* the entries of the log that are calls of name
CallsNamed(name) == {i \in 1..Len(calls) : calls[i][1] = name}

\* C10: RenderRegion.draw issues one draw call for the merged buffer and one
\* standalone draw per chunk of the pending list: one draw call in all for a
\* merged region with nothing pending, and one draw call of zero vertices for
\* a fresh region with no chunk.
C10_DrawCallCount ==
    last_call[1] = "draw" /\ Len(last_call) = 2 =>
        LET r == _regions[RegionKey]
            merged == {i \in CallsNamed("glDrawArrays") : calls[i][2] = r._vao}
        IN /\ Cardinality(merged) = 1
           /\ \A i \in merged : calls[i][3] = r._draw_count
           /\ Cardinality(CallsNamed("RenderChunk.draw")) = Len(r._manual_chunks)
           /\ \A j \in 1..Len(r._manual_chunks) :
                 Cardinality({i \in CallsNamed("RenderChunk.draw") :
                                 calls[i][2] = r._manual_chunks[j]}) = 1
           /\ r._manual_chunks = <<>> => Cardinality(CallsNamed("glDrawArrays")) = 1
           /\ render_chunks = <<>> =>
                 \A i \in CallsNamed("glDrawArrays") : calls[i][3] = 0

C10_Witness ==
    /\ last_call = <<"draw", "merge">>
    /\ _regions[RegionKey]._manual_chunks = <<>>
    /\ Cardinality(OwnedChunks(_regions[RegionKey])) = 2
    /\ Cardinality(CallsNamed("glDrawArrays")) = 1
    /\ _regions[RegionKey]._draw_count = 4

---------------------------------------------------------------------------
(* Release of chunks and GPU objects (one-region model) *)

\* C11: the region calls RenderChunk.unload on any given chunk at most once
\* (unloads counts the calls made on a chunk).
C11_ReleasedAtMostOnce ==
    \A u \in DOMAIN render_chunks : render_chunks[u].unloads <= 1

\* C12: after RenderRegion.unload() has returned, RenderChunk.unload has been
\* called at least once on every chunk ever passed to the region's
\* add_render_chunk.
C12_UnloadReleasesEveryChunk ==
    last_call[1] = "unload" =>
        \A u \in DOMAIN render_chunks : render_chunks[u].unloads >= 1

\* C13: after RenderRegion.unload() has returned on a region that had allocated
\* GPU state, every vertex array and vertex buffer it generated has been
\* deleted and the region holds no handle.
C13_UnloadDeletesGpuObjects ==
    last_call[1] = "unload" /\ gl.gen > 0 =>
        /\ gl.vaos = {}
        /\ gl.vbos = {}
        /\ _regions[RegionKey]._vao = None
        /\ _regions[RegionKey]._vbo = None

\* C14: an unload() directly after an unload(), of a RenderRegion or of the
\* ChunkManager, raises nothing, makes no OpenGL call (so deletes nothing a
\* second time), calls RenderChunk.unload on no chunk and leaves the regions,
\* the chunks, the GPU objects, the queue and the pending set as they were.
C14_SecondUnloadIsNoOp ==
    [][(\/ IsLone /\ R_unload /\ last_call[1] = "unload"
        \/ ~IsLone /\ ST_unload /\ last_call = <<"unload", None>>)
          => /\ calls' = <<>>
             /\ exc' = None
             /\ _regions' = _regions
             /\ render_chunks' = render_chunks
             /\ gl' = gl
             /\ _chunk_temp' = _chunk_temp
             /\ _chunk_temp_set' = _chunk_temp_set
      ]_vars

C14_Witness ==
    /\ IsLone
    /\ last_call = <<"unload", "unload">>
    /\ gl.gen > 0
    /\ gl.vaos = {}
    /\ \E u \in DOMAIN render_chunks : render_chunks[u].unloads > 0

---------------------------------------------------------------------------
(* The merged buffer, the owned map and the pending list (one-region model) *)

\* the coordinates of the chunks whose payload the region's vertex buffer holds
MergedCoords(region) ==
    IF region._vbo = None THEN {}
    ELSE {ChunkCoords(render_chunks, u) : u \in gl.data[region._vbo].content}

\* the coordinates of the chunks of the pending list
PendingCoords(region) ==
    {ChunkCoords(render_chunks, u) : u \in Range(region._manual_chunks)}

\* C15: while the region holds its vertex array, the coordinates in the merged
\* buffer are those of the owned map minus those of the pending list, and the
\* chunks a draw() has rendered have pairwise different coordinates.
C15_MergedIsOwnedMinusPending ==
    LET r == _regions[RegionKey]
    IN r._vao # None =>
          /\ MergedCoords(r) = DOMAIN r._chunks \ PendingCoords(r)
          /\ last_call[1] = "draw" =>
                \A u, v \in RenderedChunks :
                    ChunkCoords(render_chunks, u) = ChunkCoords(render_chunks, v) => u = v

\* C16: every chunk of the pending list has its coordinate as a key of the owned
\* map, and after unload() has returned the owned map and the pending list are
\* both empty.
C16_PendingWithinOwned ==
    LET r == _regions[RegionKey]
    IN /\ PendingCoords(r) \subseteq DOMAIN r._chunks
       /\ last_call[1] = "unload" =>
             DOMAIN r._chunks = {} /\ r._manual_chunks = <<>>

---------------------------------------------------------------------------
(* The region's lifecycle (one-region model) *)

\* the entries of the log that draw with a deleted vertex array or ask a
\* released chunk to draw itself
StaleDraws ==
    {i \in 1..Len(calls) :
        \/ calls[i][1] = "glDrawArrays" /\ calls[i][2][1] = "vao"
                                        /\ calls[i][2] \notin gl.vaos
        \/ calls[i][1] = "RenderChunk.draw" /\ render_chunks[calls[i][2]].unloads > 0}

\* the region had allocated GPU state before the call the log is of
HadGpuState == gl.gen > Cardinality(CallsNamed("glGenVertexArrays"))

\* C17: unloaded is terminal: a draw(), merge() or add_render_chunk() called on
\* a region after the unload() that ended its allocated life allocates no GPU
\* state again and issues no draw call that uses a released chunk or a deleted
\* handle.  (Stated for the call that directly follows the unload().)
C17_UnloadedIsTerminal ==
    last_call[2] = "unload" /\ last_call[1] # "unload" /\ HadGpuState =>
        /\ CallsNamed("glGenVertexArrays") = {}
        /\ CallsNamed("glGenBuffers") = {}
        /\ StaleDraws = {}

\* C18: a draw() or merge() in which an OpenGL call of _setup or of merge raises
\* leaves the region as it was before the call: handles, draw count, owned map
\* and pending list.
C18_FailureLeavesRegionUnchanged ==
    [][(\E f \in FailPoints : F_merge_raises(f) \/ F_draw_raises(f))
          => _regions' = _regions]_vars

---------------------------------------------------------------------------
(* The queue across draw and unload(safe_area) (single-threaded model) *)

\* the chunk enqueued last among the chunks of us with the coordinate of u
\* (chunk ids are given in the order of the put calls)
LastOf(us, u) ==
    CHOOSE v \in us :
        /\ ChunkCoords(render_chunks, v) = ChunkCoords(render_chunks, u)
        /\ \A w \in us :
              ChunkCoords(render_chunks, w) = ChunkCoords(render_chunks, u) => w <= v

\* C19: after a draw has drained the queue, the owned map of each drained
\* chunk's region holds, for the chunk's coordinate, the chunk enqueued last
\* among the drained chunks with that coordinate.
C19_LastEnqueuedWins ==
    last_call = <<"draw">> =>
        \A u \in render.drained :
            RegionOf(u)._chunks[ChunkCoords(render_chunks, u)] = LastOf(render.drained, u)

C19_Witness ==
    /\ last_call = <<"draw">>
    /\ render.drained = {1, 2}
    /\ ChunkCoords(render_chunks, 1) = ChunkCoords(render_chunks, 2)
    /\ RegionOf(1)._chunks[ChunkCoords(render_chunks, 1)] = 2
    /\ RegionOf(1)._manual_chunks = <<1, 2>>

\* C20: unload(safe_area) leaves the queue and the pending set as they are, so
\* every queued chunk stays queued and its coordinate stays in the manager, and
\* the draw that follows it puts every queued chunk into a region of the map.
C20_SafeAreaKeepsQueue ==
    [][/\ \A safe_area \in SafeAreas :
             ST_unload_safe_area(safe_area) =>
                 /\ _chunk_temp' = _chunk_temp
                 /\ _chunk_temp_set' = _chunk_temp_set
                 /\ \A u \in Range(_chunk_temp) :
                       (Contains(ChunkCoords(render_chunks, u)))'
       /\ (ST_draw /\ Len(last_call) = 2) =>
             \A u \in Range(_chunk_temp) :
                 /\ region_coords(render_chunks[u].cx, render_chunks[u].cz) \in DOMAIN _regions'
                 /\ (Resident(ChunkCoords(render_chunks, u)))'
      ]_vars

C20_Witness ==
    /\ last_call = <<"unload", <<0, 0, 15, 15>>>>
    /\ _chunk_temp = <<2>>
    /\ ChunkCoords(render_chunks, 2) = <<20, 0>>
    /\ ChunkCoords(render_chunks, 1) = <<20, 0>>
    /\ <<"RenderChunk.unload", 1>> \in Range(calls)
    /\ <<1, 0>> \notin DOMAIN _regions
    /\ Contains(<<20, 0>>)

====
